---- MODULE Spec2Model ----
(***************************************************************************)
(* A model of nih_plug_slint: the Slint window bridge (SlintWindowHandler), *)
(* its cursor mailbox (SlintMouseControl), the editor (SlintEditor) and the *)
(* persisted geometry (SlintState).                                         *)
(*                                                                          *)
(* Numbers.  f32/f64 scale factors are fixed-point integers with            *)
(* ScaleUnit units per 1.0.  u32 values are U32Bits wide, so that the       *)
(* wrap-around of `physical_width * physical_height` is reachable with      *)
(* small windows.  Pointer coordinates are exact fractions <<num, den>>.    *)
(***************************************************************************)
EXTENDS Integers, Sequences, FiniteSets, TLC

\* ------------------------------------------------------------------ bounds

\* Width of a u32 in the model (32 in the program).
U32Bits == 5

\* How many stores the mailbox history of MailboxSpec follows.
MaxStores == 3

\* The most editor handles alive at once.
MaxHandles == 2

\* ------------------------------------------------------------- arithmetic

U32Modulus == 2 ^ U32Bits

U32Max == U32Modulus - 1

\* Fixed-point denominator of a scale factor: 1.0 is ScaleUnit.
ScaleUnit == 10000

\* The 0.001 of `(new_scale_factor - self.scale_factor).abs() > 0.001`.
Epsilon == ScaleUnit \div 1000

Abs(x) == IF x < 0 THEN -x ELSE x

Max(a, b) == IF a >= b THEN a ELSE b

\* f32::round / f64::round of n/d for n >= 0, d > 0: half away from zero.
Round(n, d) == (2 * n + d) \div (2 * d)

\* `x as u32` of a non-negative float: the cast saturates.
AsU32(x) == IF x > U32Max THEN U32Max ELSE IF x < 0 THEN 0 ELSE x

\* `(v as f32 * scale).round() as u32`.
ScaleRound(v, scale) == AsU32(Round(v * scale, ScaleUnit))

\* u32 multiplication as a release build computes it.
WrappingMul(a, b) == (a * b) % U32Modulus

RECURSIVE GCD(_, _)
GCD(a, b) == IF b = 0 THEN a ELSE GCD(b, a % b)

\* The exact fraction n/d (d > 0) in lowest terms.
Frac(n, d) ==
    LET g == GCD(Abs(n), d)
    IN  IF g = 0 THEN <<0, 1>> ELSE <<n \div g, d \div g>>

\* LogicalPosition::new(x, y) with x = xn/xd, y = yn/yd.
LogicalPosition(x, y) == <<x[1], x[2], y[1], y[2]>>

\* LogicalPosition::default(): the origin.
Origin == LogicalPosition(Frac(0, 1), Frac(0, 1))

\* ------------------------------------------------------------- messages

\* One shape for host events, UI-runtime notifications and host calls:
\* a kind, its numbers and a tag (button, key text, scroll unit).
Msg(kind, n, tag) == [kind |-> kind, n |-> n, tag |-> tag]

NoMsg == Msg("none", <<>>, "")

\* Option<(bool, bool)>: None is <<>>, Some((enable, restore_position)) is
\* <<enable, restore_position, id>>.  The id is not in the program: it names
\* the store that wrote the value (0 where the stores are not told apart).
NoRequest == <<>>

SomeRequest(enable, restore_position, id) == <<enable, restore_position, id>>

\* ---------------------------------------------------------------- state

\* ------------------------------------------------------------ platform

\* The threads of the process that open editor windows; spawn and the
\* window's callbacks run on the GUI thread.
MaxThreads == 3

Threads == 1 .. MaxThreads

GuiThread == 1

\* The MinimalSoftwareWindows created outside a window handler.
MaxWindows == 3

\* The statics of platform.rs before any call.  once is the state of the
\* OnceLock PLATFORM_START_TIME, slint the platform the Slint runtime of the
\* process has (none, the bridge's, or one some other code has set), pc
\* where each thread is in ensure_slint_platform, and pending the
\* thread-local PENDING_WINDOW of each thread.  ran and completed are the
\* threads that began and that finished the initialisation closure, windows
\* the number of windows made so far, adapters the windows
\* create_window_adapter has returned, in order.
NoPlatform(slint) ==
    [once |-> "uninit",
     slint |-> slint,
     pc |-> [t \in Threads |-> "idle"],
     ran |-> {},
     completed |-> {},
     pending |-> [t \in Threads |-> <<>>],
     windows |-> 0,
     adapters |-> <<>>]

\* No session has been closed yet: no SlintMouseControl of an earlier window.
NoPrevious == [closed |-> FALSE, request |-> NoRequest]

\* SlintEditor's callback (registered or not) and component_weak: none
\* before the first window, then the weak handle of the component of the
\* last window built, which is the followed handler's ("tracked"),
\* another live window's ("other"), or dropped ("dead").
NoComponent(registered) == [registered |-> registered, weak |-> "none"]

\* A closure that runs although another caller is running it.
GetOrInitUnguarded(p, t) ==
    IF p.once = "done" THEN [p EXCEPT !.pc[t] = "returned"]
    ELSE [p EXCEPT !.once = "running", !.pc[t] = "init", !.ran = @ \cup {t}]

\* OnceLock::get_or_init as ensure_slint_platform enters it: an initialised
\* cell returns at once, an uninitialised one makes the caller run the
\* closure, and a caller that finds the closure running waits.
GetOrInit(p, t) ==
    IF p.once = "done" THEN [p EXCEPT !.pc[t] = "returned"]
    ELSE IF p.once = "uninit"
    THEN [p EXCEPT !.once = "running", !.pc[t] = "init", !.ran = @ \cup {t}]
    ELSE [p EXCEPT !.pc[t] = "waiting"]

\* The closure of ensure_slint_platform: slint::platform::set_platform
\* succeeds if the process has no platform yet; if it fails the closure
\* panics, and the OnceLock stays uninitialised.
SetPlatform(p, t) ==
    IF p.slint = "none"
    THEN [p EXCEPT !.slint = "bridge", !.once = "done", !.pc[t] = "returned",
                   !.completed = @ \cup {t}]
    ELSE [p EXCEPT !.once = "uninit", !.pc[t] = "panicked"]

\* ensure_slint_platform as one call on a thread that nothing interleaves
\* with: the platform afterwards and whether the call panicked.
EnsureSlintPlatform(p, t) ==
    LET entered == GetOrInit(p, t)
        left == IF entered.pc[t] = "init" THEN SetPlatform(entered, t) ELSE entered
    IN  [platform |-> [left EXCEPT !.pc[t] = p.pc[t]],
         panicked |-> left.pc[t] = "panicked"]

\* ------------------------------------------------------- native handles

\* Raw pointers and window ids: null or zero, and a valid one.
RawValues == {0, 1}

Handle(kind, raw) == [kind |-> kind, raw |-> raw]

\* ParentWindowHandleAdapter::raw_window_handle.
RawWindowHandle(parent) ==
    CASE parent.kind = "X11Window" -> Handle("Xcb", parent.raw)
      [] parent.kind = "AppKitNsView" -> Handle("AppKit", parent.raw)
      [] parent.kind = "Win32Hwnd" -> Handle("Win32", parent.raw)

\* baseview_window_to_surface_target: the display handle and the window
\* handle converted, or a panic.  AppKit and Windows display handles carry
\* nothing, a null Xlib or Xcb display pointer becomes None; a null ns_view,
\* a zero Xcb window and a zero hwnd fail the unwrap.
BaseviewWindowToSurfaceTarget(display, window) ==
    LET display_ok == display.kind \in {"AppKit", "Xlib", "Xcb", "Windows"}
        window_ok ==
            \/ window.kind = "Xlib"
            \/ window.kind \in {"AppKit", "Xcb", "Win32"} /\ window.raw # 0
    IN  [panicked |-> ~(display_ok /\ window_ok),
         raw_display_handle |->
             IF display.kind \in {"AppKit", "Windows"}
             THEN Handle(display.kind, 0) ELSE display,
         raw_window_handle |-> window]

\* The host window before any call: the pointer bounded, no mouse button
\* held down, and no logical size it was opened with.
NoHost == [unbounded |-> FALSE, held |-> {}, opened |-> <<0, 0>>]

VARIABLES
    slint_state,     \* SlintState: size, user_scale_factor, open
    scaling_factor,  \* SlintEditor::scaling_factor: <<>> (None) or <<f>>
    handler,         \* SlintWindowHandler of the open window, if any
    request,         \* SlintMouseControl::request of the current session
    host,            \* the host window as the bridge left it
    call,            \* the last entry-point call: what went in and what came out
    ledger,          \* bookkeeping of mailbox stores and takes (MailboxSpec)
    handles,         \* the number of live SlintEditorHandle values
    platform,        \* the statics of platform.rs and the process's Slint platform
    component,       \* SlintEditor's parameter callback and component_weak
    previous         \* SlintMouseControl::request of the session closed last

vars == <<slint_state, scaling_factor, handler, request, host, call, ledger,
          handles, platform, component, previous>>

\* The fields of SlintWindowHandler.  pixel_buffer is the Vec's length,
\* sb_surface the size the softbuffer surface was last resized to, and
\* slint_window what the MinimalSoftwareWindow was last told.
NoHandler ==
    [alive |-> FALSE,
     physical_width |-> 0,
     physical_height |-> 0,
     scale_factor |-> ScaleUnit,
     pixel_buffer |-> 0,
     sb_surface |-> <<1, 1>>,
     slint_window |-> [size |-> <<0, 0>>, scale_factor |-> ScaleUnit,
                       redraw |-> FALSE],
     last_mouse_position |-> Origin,
     mouse_button_pressed |-> FALSE,
     unbounded_active |-> FALSE]

\* The record of one entry-point call: the event it was given, whether a
\* panic was raised, by which step, and whether it left the entry point (it
\* is unwinding until something catches it), the status returned,
\* what the poll of the mailbox took, what the mailbox held when the call
\* began, the log of the calls the body made on
\* its collaborators, in order, and the handler as it was when the call began.
\* For a call on SlintState or the editor: its argument, what it returned,
\* and the SlintState and the editor's scaling factor as they were before.
NoCall ==
    [entry |-> "none",
     ev |-> NoMsg,
     panicked |-> FALSE,
     panic_at |-> "none",
     propagated |-> FALSE,
     status |-> "none",
     taken |-> NoRequest,
     pending |-> NoRequest,
     log |-> <<>>,
     before |-> NoHandler,
     arg |-> <<>>,
     result |-> <<>>,
     state |-> [size |-> <<0, 0>>, user_scale_factor |-> ScaleUnit, open |-> FALSE],
     scaling |-> <<>>]

\* The bookkeeping of the mailbox: the values stored since the last take,
\* the id of the next store, the ids take_request returned, the ids a later
\* store replaced in the slot, and the last take (what it returned, and the
\* values stored before it since the take before).
NoLedger ==
    [stores |-> <<>>,
     next |-> 1,
     returned |-> <<>>,
     overwritten |-> {},
     last_take |-> [value |-> NoRequest, history |-> <<>>]]

\* ------------------------------------------------------------ SlintState

\* The scaled size with the product cut off instead of rounded.
ScaledLogicalSizeTruncated(state) ==
    <<AsU32((state.size[1] * state.user_scale_factor) \div ScaleUnit),
      AsU32((state.size[2] * state.user_scale_factor) \div ScaleUnit)>>

\* SlintState::scaled_logical_size, which SlintState::size returns.
ScaledLogicalSize(state) ==
    <<AsU32(Round(state.size[1] * state.user_scale_factor, ScaleUnit)),
      AsU32(Round(state.size[2] * state.user_scale_factor, ScaleUnit))>>

\* SlintState::from_size_with_scale.
FromSizeWithScale(width, height, user_scale_factor) ==
    [size |-> <<width, height>>, user_scale_factor |-> user_scale_factor,
     open |-> FALSE]

\* SlintState::from_size: a user scale factor of 1.0.
FromSize(width, height) == FromSizeWithScale(width, height, ScaleUnit)

\* #[derive(Serialize)] with #[serde(skip)] on `open`: what is persisted.
Serialize(state) ==
    [size |-> state.size, user_scale_factor |-> state.user_scale_factor]

\* #[derive(Deserialize)]: the skipped field is AtomicBool::default().
Deserialize(data) ==
    [size |-> data.size, user_scale_factor |-> data.user_scale_factor,
     open |-> FALSE]

\* A restore that also takes over the open flag of the value it is given.
SetFieldsAndOpen(state, new_value) == new_value

\* PersistentField::set: size and user_scale_factor are stored over.
SetFields(state, new_value) ==
    [state EXCEPT !.size = new_value.size,
                  !.user_scale_factor = new_value.user_scale_factor]

\* The record of a call on SlintState or the editor.
StateCall(entry, arg) ==
    [NoCall EXCEPT !.entry = entry, !.arg = arg, !.before = handler,
                   !.state = slint_state, !.scaling = scaling_factor]

\* SlintState::set_user_scale_factor(scale).
SetUserScaleFactor(scale) ==
    /\ slint_state' = [slint_state EXCEPT !.user_scale_factor = scale]
    /\ call' = StateCall("set_user_scale_factor", <<scale>>)
    /\ UNCHANGED <<scaling_factor, handler, request, host, ledger, handles, platform, component, previous>>

\* nih-plug restores persisted state: PersistentField::set(new_value).
PersistentSet(new_value) ==
    /\ slint_state' = SetFields(slint_state, new_value)
    /\ call' = StateCall("set", <<new_value>>)
    /\ UNCHANGED <<scaling_factor, handler, request, host, ledger, handles, platform, component, previous>>

\* A set_scale_factor that stores the factor whether or not a window is open.
StoredScaleFactorAlways(open, stored, factor) ==
    [result |-> TRUE, scaling_factor |-> <<factor>>]

\* The body of SlintEditor::set_scale_factor: what it returns and what the
\* editor's scaling factor is afterwards.
StoredScaleFactor(open, stored, factor) ==
    IF open THEN [result |-> FALSE, scaling_factor |-> stored]
    ELSE [result |-> TRUE, scaling_factor |-> <<factor>>]

\* The host calls Editor::set_scale_factor(factor).
SetScaleFactor(factor) ==
    /\ LET r == StoredScaleFactor(slint_state.open, scaling_factor, factor)
       IN  /\ scaling_factor' = r.scaling_factor
           /\ call' = [StateCall("set_scale_factor", <<factor>>)
                          EXCEPT !.result = <<r.result>>]
    /\ UNCHANGED <<slint_state, handler, request, host, ledger, handles, platform, component, previous>>

\* The state after create_slint_editor: SlintState::from_size(width, height)
\* or from_size_with_scale, no window, and the editor's scaling factor (None
\* on macOS, Some(1.0) elsewhere).
CreatedEditor(sizes, user_scales, scaling_factors) ==
    /\ \E size \in sizes, user_scale \in user_scales :
           slint_state = [size |-> size, user_scale_factor |-> user_scale,
                          open |-> FALSE]
    /\ scaling_factor \in scaling_factors
    /\ handler = NoHandler
    /\ request = NoRequest
    /\ host = NoHost
    /\ call = NoCall
    /\ ledger = NoLedger
    /\ handles = 0
    /\ previous = NoPrevious

\* The editor in a process whose Slint runtime has no platform yet, with a
\* parameter callback registered.
Created(sizes, user_scales, scaling_factors) ==
    /\ CreatedEditor(sizes, user_scales, scaling_factors)
    /\ platform = NoPlatform("none")
    /\ component = NoComponent(TRUE)

\* ----------------------------------------------------- SlintMouseControl

\* A store that keeps a value still waiting in the slot: first write wins.
StoreIfEmpty(slot, value) == IF slot = NoRequest THEN value ELSE slot

\* AtomicCell::store: the slot holds the new value, whatever it held.
Store(slot, value) == value

\* AtomicCell::swap: one atomic step that returns the old value and leaves
\* the new one.
Swap(slot, value) == [old |-> slot, new |-> value]

\* A take that reads the slot and leaves the value in it.
TakeRequestWithoutClearing(slot) == [old |-> slot, new |-> slot]

\* SlintMouseControl::take_request: self.request.swap(None).
TakeRequest(slot) == Swap(slot, NoRequest)

\* SlintMouseControl::enable_unbounded_movement(restore_position).
EnableRequest(restore_position, id) == SomeRequest(TRUE, restore_position, id)

\* SlintMouseControl::disable_unbounded_movement().
DisableRequest(id) == SomeRequest(FALSE, FALSE, id)

\* The values a producer can store.
Requests(id) == {EnableRequest(TRUE, id), EnableRequest(FALSE, id), DisableRequest(id)}

\* A producer (a UI callback between two entry-point calls, or another
\* thread) calls enable_unbounded_movement(restore_position).
EnableUnboundedMovement(restore_position, id) ==
    /\ handler.alive
    /\ request' = Store(request, EnableRequest(restore_position, id))
    /\ UNCHANGED <<slint_state, scaling_factor, handler, host, call, handles, platform, component, previous>>

\* A producer calls disable_unbounded_movement().
DisableUnboundedMovement(id) ==
    /\ handler.alive
    /\ request' = Store(request, DisableRequest(id))
    /\ UNCHANGED <<slint_state, scaling_factor, handler, host, call, handles, platform, component, previous>>

\* ------------------------------------------------- the run of a handler

\* What an entry point works on: the state it can change, and the record of
\* the call.  slint_event is the translated event of on_event_inner.
Machine(entry, ev) ==
    [state |-> slint_state,
     h |-> handler,
     request |-> request,
     host |-> host,
     slint_event |-> <<>>,
     call |-> [NoCall EXCEPT !.entry = entry, !.ev = ev, !.before = handler,
                            !.pending = request]]

\* A panic unwinds from the step that raised it: the rest of the body does
\* not run, and the panic leaves the entry point unless it is caught.
Raise(m, step) ==
    [m EXCEPT !.call.panicked = TRUE, !.call.panic_at = step,
              !.call.propagated = TRUE]

\* A call the body makes on the Slint window, the UI runtime, the mailbox,
\* the softbuffer surface or the host window, appended to the call's log.
Log(m, msg) == [m EXCEPT !.call.log = Append(@, msg)]

Bit(b) == IF b THEN 1 ELSE 0

\* window.enable_unbounded_mouse_movement(enable, restore_position).
HostCall(m, enable, restore_position) ==
    [Log(m, Msg("enable_unbounded_mouse_movement",
                <<Bit(enable), Bit(restore_position)>>, ""))
        EXCEPT !.host.unbounded = enable]

\* The host call raising a panic: the call was made, and the host may or may
\* not have switched the pointer mode before it failed.
HostCallPanics(m, enable, restore_position, took_effect) ==
    Raise([Log(m, Msg("enable_unbounded_mouse_movement",
                      <<Bit(enable), Bit(restore_position)>>, "panic"))
              EXCEPT !.host.unbounded = IF took_effect THEN enable ELSE @],
          "host_call")

\* process_cursor_requests without the comparison with unbounded_active: the
\* host is called for every consumed request.
ApplyRequestUnconditionally(m, req, inp) ==
    IF inp.panicAt = "host_call"
    THEN HostCallPanics(m, req[1], req[1] /\ req[2], inp.hostEffect)
    ELSE [HostCall(m, req[1], req[1] /\ req[2])
             EXCEPT !.h.unbounded_active = req[1]]

\* The branch of process_cursor_requests for a consumed request.
ApplyRequest(m, req, inp) ==
    LET enable == req[1]
        restore_position == req[2]
    IN  IF enable /\ ~m.h.unbounded_active
        THEN IF inp.panicAt = "host_call"
             THEN HostCallPanics(m, TRUE, restore_position, inp.hostEffect)
             ELSE [HostCall(m, TRUE, restore_position)
                      EXCEPT !.h.unbounded_active = TRUE]
        ELSE IF ~enable /\ m.h.unbounded_active
        THEN IF inp.panicAt = "host_call"
             THEN HostCallPanics(m, FALSE, FALSE, inp.hostEffect)
             ELSE [HostCall(m, FALSE, FALSE)
                      EXCEPT !.h.unbounded_active = FALSE]
        ELSE m

\* SlintWindowHandler::process_cursor_requests.
ProcessCursorRequests(m, inp) ==
    IF m.call.panicked THEN m
    ELSE LET t == TakeRequest(m.request)
             polled == [Log(m, Msg("take_request", <<>>, ""))
                           EXCEPT !.request = t.new, !.call.taken = t.old]
         IN  IF t.old = NoRequest THEN polled
             ELSE ApplyRequest(polled, t.old, inp)

\* ------------------------------------------------------------- on_frame

\* A UI callback run by the UI runtime stores a request, or none does.
Callback(m, value) ==
    IF value = NoRequest THEN m
    ELSE [Log(m, Msg("store", <<Bit(value[1]), Bit(value[2])>>, "callback"))
             EXCEPT !.request = Store(@, value)]

\* slint::platform::update_timers_and_animations(): timers fire callbacks.
UpdateTimers(m, inp) ==
    IF m.call.panicked THEN m
    ELSE IF inp.panicAt = "update_timers"
    THEN Raise(Log(m, Msg("update_timers_and_animations", <<>>, "panic")),
               "update_timers")
    ELSE Callback(Log(m, Msg("update_timers_and_animations", <<>>, "")),
                  inp.timerCallback)

\* slint_window.request_redraw().
RequestRedraw(m) ==
    IF m.call.panicked THEN m
    ELSE [Log(m, Msg("request_redraw", <<>>, ""))
             EXCEPT !.h.slint_window.redraw = TRUE]

\* slint_window.draw_if_needed(|renderer| renderer.render(buffer, stride)):
\* renders when a redraw is pending, with physical_width as the stride.
DrawIfNeeded(m, inp) ==
    IF m.call.panicked \/ ~m.h.slint_window.redraw THEN m
    ELSE IF inp.panicAt = "render"
    THEN Raise(Log(m, Msg("render", <<m.h.physical_width>>, "panic")), "render")
    ELSE [Log(m, Msg("render", <<m.h.physical_width>>, ""))
             EXCEPT !.h.slint_window.redraw = FALSE]

\* The length of the buffer softbuffer maps for a surface of this size.
SurfaceLen(surface) == surface[1] * surface[2]

\* A blit that unwraps the results of mapping and presenting the buffer.
BlitUnwrap(m, inp) ==
    IF m.call.panicked THEN m
    ELSE IF ~inp.bufferOk
    THEN Raise(Log(m, Msg("buffer_mut", <<>>, "err")), "blit")
    ELSE IF m.h.pixel_buffer > SurfaceLen(m.h.sb_surface)
    THEN Raise(Log(m, Msg("buffer_mut", <<SurfaceLen(m.h.sb_surface)>>, "panic")),
               "blit")
    ELSE IF ~inp.presentOk
    THEN Raise(Log(Log(m, Msg("buffer_mut", <<SurfaceLen(m.h.sb_surface)>>, "ok")),
                   Msg("present", <<m.h.pixel_buffer>>, "err")), "blit")
    ELSE Log(Log(m, Msg("buffer_mut", <<SurfaceLen(m.h.sb_surface)>>, "ok")),
             Msg("present", <<m.h.pixel_buffer>>, "ok"))

\* The blit of on_frame_inner: map the host buffer, write buffer[i] for
\* every pixel of pixel_buffer, present.  buffer[i] past the mapped length
\* is an index out of bounds, which panics.
Blit(m, inp) ==
    IF m.call.panicked THEN m
    ELSE IF ~inp.bufferOk
    THEN Log(m, Msg("buffer_mut", <<>>, "err"))
    ELSE IF m.h.pixel_buffer > SurfaceLen(m.h.sb_surface)
    THEN Raise(Log(m, Msg("buffer_mut", <<SurfaceLen(m.h.sb_surface)>>, "panic")),
               "blit")
    ELSE Log(Log(m, Msg("buffer_mut", <<SurfaceLen(m.h.sb_surface)>>, "ok")),
             Msg("present", <<m.h.pixel_buffer>>,
                 IF inp.presentOk THEN "ok" ELSE "err"))

\* An on_frame_inner that renders before it advances timers and animations.
OnFrameInnerRenderFirst(m, inp) ==
    Blit(UpdateTimers(DrawIfNeeded(RequestRedraw(m), inp), inp), inp)

\* SlintWindowHandler::on_frame_inner.
OnFrameInner(m, inp) ==
    Blit(DrawIfNeeded(RequestRedraw(UpdateTimers(m, inp)), inp), inp)

\* An entry point without its catch_unwind: the panic goes on unwinding.
CatchUnwindMissing(m) == m

\* std::panic::catch_unwind around the body of an entry point: a panic that
\* the body raised stops here and becomes the Err the entry point matches on.
CatchUnwind(m) ==
    IF m.call.panicked THEN [m EXCEPT !.call.propagated = FALSE] ELSE m

\* The body of on_frame.
OnFrameBody(m, inp) == OnFrameInner(ProcessCursorRequests(m, inp), inp)


\* ------------------------------------------------------ event translation

\* The pixels per scrolled line of translate_mouse_event.
LineHeight == 20

\* translate_mouse_button.
TranslateMouseButton(button) ==
    CASE button = "Left" -> "Left"
      [] button = "Right" -> "Right"
      [] button = "Middle" -> "Middle"
      [] OTHER -> "Other"

\* key_to_text: the text of a key; navigation keys give the empty string.
KeyToText(key) ==
    CASE key = "Character(a)" -> "a"
      [] key = "Enter" -> "\n"
      [] key = "Tab" -> "\t"
      [] OTHER -> ""

\* A translation that brings the wheel deltas to logical pixels as it does
\* the pointer position, dividing by the scale factor.
TranslateMouseEventScaledWheel(ev, scale_factor) ==
    CASE ev.kind = "CursorMoved" ->
           <<Msg("PointerMoved",
                 LogicalPosition(Frac(ev.n[1] * ScaleUnit, scale_factor),
                                 Frac(ev.n[2] * ScaleUnit, scale_factor)), "")>>
      [] ev.kind = "ButtonPressed" ->
           <<Msg("PointerPressed", Origin, TranslateMouseButton(ev.tag))>>
      [] ev.kind = "ButtonReleased" ->
           <<Msg("PointerReleased", Origin, TranslateMouseButton(ev.tag))>>
      [] ev.kind = "WheelScrolled" ->
           <<Msg("PointerScrolled",
                 Origin \o (IF ev.tag = "Lines"
                            THEN <<(ev.n[1] * LineHeight * ScaleUnit) \div scale_factor,
                                   (ev.n[2] * LineHeight * ScaleUnit) \div scale_factor>>
                            ELSE <<(ev.n[1] * ScaleUnit) \div scale_factor,
                                   (ev.n[2] * ScaleUnit) \div scale_factor>>), "")>>
      [] ev.kind = "CursorEntered" -> <<Msg("PointerMoved", Origin, "")>>
      [] ev.kind = "CursorLeft" -> <<Msg("PointerExited", <<>>, "")>>
      [] OTHER -> <<>>

\* translate_mouse_event: Some(event) is <<event>>, None is <<>>.
TranslateMouseEvent(ev, scale_factor) ==
    CASE ev.kind = "CursorMoved" ->
           <<Msg("PointerMoved",
                 LogicalPosition(Frac(ev.n[1] * ScaleUnit, scale_factor),
                                 Frac(ev.n[2] * ScaleUnit, scale_factor)), "")>>
      [] ev.kind = "ButtonPressed" ->
           <<Msg("PointerPressed", Origin, TranslateMouseButton(ev.tag))>>
      [] ev.kind = "ButtonReleased" ->
           <<Msg("PointerReleased", Origin, TranslateMouseButton(ev.tag))>>
      [] ev.kind = "WheelScrolled" ->
           <<Msg("PointerScrolled",
                 Origin \o (IF ev.tag = "Lines"
                            THEN <<ev.n[1] * LineHeight, ev.n[2] * LineHeight>>
                            ELSE <<ev.n[1], ev.n[2]>>), "")>>
      [] ev.kind = "CursorEntered" -> <<Msg("PointerMoved", Origin, "")>>
      [] ev.kind = "CursorLeft" -> <<Msg("PointerExited", <<>>, "")>>
      [] OTHER -> <<>>

\* translate_keyboard_event.
TranslateKeyboardEvent(ev) ==
    IF ev.kind = "KeyDown"
    THEN <<Msg("KeyPressed", <<>>, KeyToText(ev.tag))>>
    ELSE <<Msg("KeyReleased", <<>>, KeyToText(ev.tag))>>

\* translate_window_event.
TranslateWindowEvent(ev) ==
    CASE ev.kind = "Resized" ->
           <<Msg("Resized", <<ev.n[1], ev.n[2], ev.n[3], ev.n[4]>>, "")>>
      [] ev.kind = "Focused" -> <<Msg("WindowActiveChanged", <<1>>, "")>>
      [] ev.kind = "Unfocused" -> <<Msg("WindowActiveChanged", <<0>>, "")>>
      [] ev.kind = "WillClose" -> <<Msg("CloseRequested", <<>>, "")>>

MouseKinds ==
    {"CursorMoved", "ButtonPressed", "ButtonReleased", "WheelScrolled",
     "CursorEntered", "CursorLeft", "DragEntered", "DragMoved", "DragLeft",
     "DragDropped"}

KeyboardKinds == {"KeyDown", "KeyUp"}

\* translate_event.
TranslateEvent(ev, scale_factor) ==
    IF ev.kind \in MouseKinds THEN TranslateMouseEvent(ev, scale_factor)
    ELSE IF ev.kind \in KeyboardKinds THEN TranslateKeyboardEvent(ev)
    ELSE TranslateWindowEvent(ev)

\* ------------------------------------------------------------- host events

\* baseview's WindowInfo of a Resized event: the logical size (two exact
\* fractions), the physical size and the scale, as
\* <<lw_num, lw_den, lh_num, lh_den, physical_width, physical_height, scale>>.
\* WindowInfo::from_logical_size derives the physical size from the logical.
ResizedFromLogical(lw, lh, scale) ==
    Msg("Resized",
        <<lw, 1, lh, 1, ScaleRound(lw, scale), ScaleRound(lh, scale), scale>>, "")

\* WindowInfo::from_physical_size derives the logical size from the physical.
ResizedFromPhysical(pw, ph, scale) ==
    Msg("Resized",
        Frac(pw * ScaleUnit, scale) \o Frac(ph * ScaleUnit, scale)
            \o <<pw, ph, scale>>, "")

\* ------------------------------------------------------------- on_event

\* on_event_inner, the resize protocol: store the rounded logical size in
\* SlintState and overwrite the physical dimensions.
ResizeStore(m, ev) ==
    [m EXCEPT !.state.size = <<AsU32(Round(ev.n[1], ev.n[2])),
                               AsU32(Round(ev.n[3], ev.n[4]))>>,
              !.h.physical_width = ev.n[5],
              !.h.physical_height = ev.n[6]]

\* Whether the host's scale differs from the cached one by more than 0.001.
ScaleDiffers(new_scale_factor, scale_factor) ==
    Abs(new_scale_factor - scale_factor) > Epsilon

\* The scale update telling Slint of the change without taking the host's
\* value into the cache.
ResizeScaleFactorNotCached(m, ev, inp) ==
    IF m.call.panicked \/ ~ScaleDiffers(ev.n[7], m.h.scale_factor) THEN m
    ELSE [Log(m, Msg("ScaleFactorChanged", <<ev.n[7]>>, ""))
             EXCEPT !.h.slint_window.scale_factor = ev.n[7]]

\* The resize protocol: take over the host's scale factor and tell Slint.
ResizeScaleFactor(m, ev, inp) ==
    IF m.call.panicked \/ ~ScaleDiffers(ev.n[7], m.h.scale_factor) THEN m
    ELSE LET cached == [m EXCEPT !.h.scale_factor = ev.n[7]]
         IN  IF inp.panicAt = "scale_factor_changed"
             THEN Raise(Log(cached, Msg("ScaleFactorChanged", <<ev.n[7]>>, "panic")),
                        "scale_factor_changed")
             ELSE [Log(cached, Msg("ScaleFactorChanged", <<ev.n[7]>>, ""))
                      EXCEPT !.h.slint_window.scale_factor = ev.n[7]]

\* The resize protocol: resize the softbuffer surface when both dimensions
\* are non-zero; the result of resize is dropped.
ResizeSurface(m, inp) ==
    IF m.call.panicked \/ m.h.physical_width = 0 \/ m.h.physical_height = 0
    THEN m
    ELSE IF inp.surfaceFails
    THEN Log(m, Msg("surface_resize",
                    <<m.h.physical_width, m.h.physical_height>>, "err"))
    ELSE [Log(m, Msg("surface_resize",
                     <<m.h.physical_width, m.h.physical_height>>, "ok"))
             EXCEPT !.h.sb_surface = <<m.h.physical_width, m.h.physical_height>>]

\* Whether physical_width * physical_height leaves the range of a u32.
Overflows(width, height) == width * height > U32Max

\* The resize protocol: `(physical_width * physical_height) as usize`, the
\* product taken in u32: past the range it wraps in a build without
\* overflow checks and panics in one with them.  Then Vec::resize.
ResizePixelBuffer(m, inp) ==
    IF m.call.panicked THEN m
    ELSE IF Overflows(m.h.physical_width, m.h.physical_height)
            /\ inp.overflow = "panic"
    THEN Raise(m, "pixel_count")
    ELSE [m EXCEPT !.h.pixel_buffer =
                      WrappingMul(m.h.physical_width, m.h.physical_height)]

\* The resize protocol: slint_window.set_size(PhysicalSize).
ResizeSetSize(m) ==
    IF m.call.panicked THEN m
    ELSE [Log(m, Msg("set_size", <<m.h.physical_width, m.h.physical_height>>, ""))
             EXCEPT !.h.slint_window.size =
                        <<m.h.physical_width, m.h.physical_height>>]

\* The resize protocol: dispatch WindowEvent::Resized with the logical size.
ResizeDispatchResized(m, ev, inp) ==
    IF m.call.panicked THEN m
    ELSE IF inp.panicAt = "dispatch_resized"
    THEN Raise(Log(m, Msg("Resized", <<ev.n[1], ev.n[2], ev.n[3], ev.n[4]>>, "panic")),
               "dispatch_resized")
    ELSE Log(m, Msg("Resized", <<ev.n[1], ev.n[2], ev.n[3], ev.n[4]>>, ""))

\* The resize protocol with the scale change told to Slint after the sizes.
ResizeProtocolScaleLast(m, ev, inp) ==
    IF ev.kind # "Resized" THEN m
    ELSE RequestRedraw(
           ResizeScaleFactor(
             ResizeDispatchResized(
               ResizeSetSize(
                 ResizePixelBuffer(ResizeSurface(ResizeStore(m, ev), inp), inp)),
               ev, inp),
             ev, inp))

\* on_event_inner for WindowEvent::Resized: the whole resize protocol.
ResizeProtocol(m, ev, inp) ==
    IF ev.kind # "Resized" THEN m
    ELSE RequestRedraw(
           ResizeDispatchResized(
             ResizeSetSize(
               ResizePixelBuffer(
                 ResizeSurface(
                   ResizeScaleFactor(ResizeStore(m, ev), ev, inp), inp), inp)),
             ev, inp))

\* A position cache that also follows the pointer of a drag-and-drop.
TrackMousePositionOnDrag(m, ev) ==
    IF m.call.panicked \/ ev.kind \notin {"CursorMoved", "DragEntered", "DragMoved",
                                          "DragDropped"}
    THEN m
    ELSE [m EXCEPT !.h.last_mouse_position =
                      LogicalPosition(Frac(Max(ev.n[1], 0), 1),
                                      Frac(Max(ev.n[2], 0), 1))]

\* on_event_inner: the position cache, written on CursorMoved.
TrackMousePosition(m, ev) ==
    IF m.call.panicked \/ ev.kind # "CursorMoved" THEN m
    ELSE [m EXCEPT !.h.last_mouse_position =
                      LogicalPosition(Frac(Max(ev.n[1], 0), 1),
                                      Frac(Max(ev.n[2], 0), 1))]

\* on_event_inner: the button flag.
TrackMouseButton(m, ev) ==
    IF m.call.panicked THEN m
    ELSE IF ev.kind = "ButtonPressed"
    THEN [m EXCEPT !.h.mouse_button_pressed = TRUE]
    ELSE IF ev.kind = "ButtonReleased"
    THEN [m EXCEPT !.h.mouse_button_pressed = FALSE]
    ELSE m

\* A dispatch of the translated event as translate_event left it.
BackFillNothing(slint_event, last_pos) == slint_event

\* on_event_inner: the cached position replaces the position of a translated
\* pointer-pressed, pointer-released or pointer-scrolled event.
BackFill(slint_event, last_pos) ==
    IF slint_event.kind \in {"PointerPressed", "PointerReleased", "PointerScrolled"}
    THEN [slint_event EXCEPT !.n = last_pos \o SubSeq(@, 5, Len(@))]
    ELSE slint_event

\* slint_window.try_dispatch_event(slint_event): the UI runtime receives the
\* event and runs the callbacks it triggers, or reports an error, which is
\* logged and dropped.
TryDispatch(m, slint_event, inp) ==
    IF inp.panicAt = "try_dispatch"
    THEN Raise(Log(m, [slint_event EXCEPT !.tag = "panic"]), "try_dispatch")
    ELSE IF ~inp.dispatchOk
    THEN Log(Log(m, slint_event), Msg("try_dispatch_event", <<>>, "err"))
    ELSE Callback(Log(Log(m, slint_event), Msg("try_dispatch_event", <<>>, "ok")),
                  inp.dispatchCallback)

\* A translate-and-dispatch that reports Ignored when the UI runtime's
\* dispatch reported an error.
TranslateAndDispatchStatusOfDispatch(m, ev, inp) ==
    IF m.call.panicked THEN m
    ELSE LET translated == TranslateEvent(ev, m.h.scale_factor)
         IN  IF translated = <<>>
             THEN [m EXCEPT !.call.status = "Ignored"]
             ELSE LET slint_event == BackFill(translated[1], m.h.last_mouse_position)
                      done == RequestRedraw(
                                UpdateTimers(TryDispatch(m, slint_event, inp), inp))
                  IN  IF done.call.panicked THEN done
                      ELSE [done EXCEPT !.call.status =
                               IF inp.dispatchOk THEN "Captured" ELSE "Ignored"]

\* on_event_inner: translate, back-fill, dispatch, update timers, request a
\* redraw; Captured when the event has a translation, Ignored when not.
TranslateAndDispatch(m, ev, inp) ==
    IF m.call.panicked THEN m
    ELSE LET translated == TranslateEvent(ev, m.h.scale_factor)
         IN  IF translated = <<>>
             THEN [m EXCEPT !.call.status = "Ignored"]
             ELSE LET slint_event == BackFill(translated[1], m.h.last_mouse_position)
                      done == RequestRedraw(
                                UpdateTimers(TryDispatch(m, slint_event, inp), inp))
                  IN  IF done.call.panicked THEN done
                      ELSE [done EXCEPT !.call.status = "Captured"]

\* SlintWindowHandler::on_event_inner.
OnEventInner(m, ev, inp) ==
    TranslateAndDispatch(
      TrackMouseButton(TrackMousePosition(ResizeProtocol(m, ev, inp), ev), ev),
      ev, inp)

\* The body of on_event polling the mailbox before it handles the event.
OnEventBodyPollFirst(m, ev, inp) ==
    OnEventInner(ProcessCursorRequests(m, inp), ev, inp)

\* The body of on_event: on_event_inner, then process_cursor_requests.
OnEventBody(m, ev, inp) == ProcessCursorRequests(OnEventInner(m, ev, inp), inp)

\* on_event's `match result`: the status of the body, Ignored after a panic.
\* A panic that was not caught leaves the entry point: nothing is returned.
EventStatus(m) ==
    IF m.call.propagated THEN [m EXCEPT !.call.status = "none"]
    ELSE IF m.call.panicked THEN [m EXCEPT !.call.status = "Ignored"]
    ELSE m

\* What the caller sees of on_frame: it returns (), unless a panic leaves it.
FrameStatus(m) ==
    IF m.call.propagated THEN [m EXCEPT !.call.status = "none"]
    ELSE [m EXCEPT !.call.status = "()"]

\* -------------------------------------------------------------- inputs

\* What the collaborators do during one call: the step that panics, whether
\* a panicking host call took effect, the request a callback stores during
\* dispatch or during the timer update, whether the dispatch succeeds, whether the surface resize fails,
\* what the build does on u32 overflow, whether mapping and presenting the
\* host buffer succeed, and whether acquiring the surface fails at open.
DefaultInput ==
    [panicAt |-> "none",
     hostEffect |-> FALSE,
     dispatchCallback |-> NoRequest,
     dispatchOk |-> TRUE,
     timerCallback |-> NoRequest,
     surfaceFails |-> FALSE,
     overflow |-> "wrap",
     bufferOk |-> TRUE,
     presentOk |-> TRUE,
     windowFails |-> FALSE,
     parent |-> Handle("X11Window", 1),
     display |-> Handle("Xcb", 1),
     window |-> Handle("Xcb", 1),
     between |-> <<>>]

DragKinds == {"DragEntered", "DragMoved", "DragLeft", "DragDropped"}

\* The steps of on_event that call into the UI runtime or the host and can
\* raise a panic for this event.
EventPanicPoints(ev) ==
    {"none", "host_call"}
        \cup (IF ev.kind \in DragKinds THEN {} ELSE {"try_dispatch", "update_timers"})
        \cup (IF ev.kind = "Resized"
              THEN {"scale_factor_changed", "dispatch_resized"} ELSE {})

\* Every step that can be chosen to raise a panic.
PanicPoints ==
    {"host_call", "update_timers", "render", "try_dispatch",
     "scale_factor_changed", "dispatch_resized"}

\* The inputs of one on_event call, each alternative only where the body
\* can reach it.
EventInputs(ev, callbacks, surface_failures, panic_points, dispatch_failures) ==
    {i \in [panicAt : EventPanicPoints(ev) \cap ({"none"} \cup panic_points),
            hostEffect : BOOLEAN,
            dispatchCallback : callbacks \cup {NoRequest},
            dispatchOk : {TRUE} \cup {~f : f \in dispatch_failures},
            timerCallback : {NoRequest},
            surfaceFails : {FALSE} \cup surface_failures,
            overflow : {"wrap", "panic"},
            bufferOk : {TRUE},
            presentOk : {TRUE},
            windowFails : {FALSE},
            parent : {DefaultInput.parent},
            display : {DefaultInput.display},
            window : {DefaultInput.window},
            between : {DefaultInput.between}] :
        /\ i.hostEffect => i.panicAt = "host_call"
        /\ ~i.dispatchOk =>
              /\ ev.kind \notin DragKinds
              /\ i.panicAt = "none"
              /\ i.dispatchCallback = NoRequest
              /\ ~i.surfaceFails
              /\ i.overflow = "wrap"
        /\ i.dispatchCallback # NoRequest =>
              /\ ev.kind \notin DragKinds
              /\ i.panicAt \in {"none", "update_timers", "host_call"}
              /\ i.overflow = "wrap"
        /\ i.surfaceFails =>
              /\ ev.kind = "Resized"
              /\ ev.n[5] # 0 /\ ev.n[6] # 0
              /\ i.panicAt # "scale_factor_changed"
        /\ i.overflow = "panic" =>
              /\ ev.kind = "Resized"
              /\ Overflows(ev.n[5], ev.n[6])
              /\ i.panicAt = "none"}

\* The inputs of one on_frame call.
FrameInputs(callbacks, buffer_failures, panic_points) ==
    {i \in [panicAt : {"none", "host_call", "update_timers", "render"}
                          \cap ({"none"} \cup panic_points),
            hostEffect : BOOLEAN,
            dispatchCallback : {NoRequest},
            dispatchOk : {TRUE},
            timerCallback : callbacks \cup {NoRequest},
            surfaceFails : {FALSE},
            overflow : {"wrap"},
            bufferOk : {TRUE} \cup {~f : f \in buffer_failures},
            presentOk : {TRUE} \cup {~f : f \in buffer_failures},
            windowFails : {FALSE},
            parent : {DefaultInput.parent},
            display : {DefaultInput.display},
            window : {DefaultInput.window},
            between : {DefaultInput.between}] :
        /\ i.hostEffect => i.panicAt = "host_call"
        /\ i.timerCallback # NoRequest => i.panicAt \in {"none", "render"}
        /\ ~i.bufferOk => i.presentOk /\ i.panicAt = "none"
        /\ ~i.presentOk => i.panicAt = "none"}

\* The inputs of one spawn.
SpawnInputs ==
    {[DefaultInput EXCEPT !.windowFails = f, !.overflow = o] :
        f \in BOOLEAN, o \in {"wrap", "panic"}}

\* The panic the inputs chose was raised by the step they chose.
AsChosen(m, inp) ==
    /\ inp.panicAt # "none" => m.call.panic_at = inp.panicAt
    /\ inp.overflow = "panic" => m.call.panic_at = "pixel_count"

\* The state an entry point leaves.
Commit(m) ==
    /\ slint_state' = m.state
    /\ handler' = m.h
    /\ request' = m.request
    /\ host' = m.host
    /\ call' = m.call

\* ------------------------------------------------------------ operations

\* baseview calls SlintWindowHandler::on_frame.
OnFrame(inp) ==
    /\ handler.alive
    /\ LET m == FrameStatus(CatchUnwind(OnFrameBody(Machine("on_frame", NoMsg), inp)))
       IN  AsChosen(m, inp) /\ Commit(m)
    /\ UNCHANGED <<scaling_factor, handles, platform, component, previous>>

\* baseview calls SlintWindowHandler::on_event(event).
\* The mouse buttons the user holds down once the host delivers the event.
HostButtons(held, ev) ==
    IF ev.kind = "ButtonPressed" THEN held \cup {ev.tag}
    ELSE IF ev.kind = "ButtonReleased" THEN held \ {ev.tag}
    ELSE held

OnEvent(ev, inp) ==
    /\ handler.alive
    /\ LET delivered == [Machine("on_event", ev) EXCEPT
                           !.host.held = HostButtons(host.held, ev)]
           m == EventStatus(CatchUnwind(OnEventBody(delivered, ev, inp)))
       IN  AsChosen(m, inp) /\ Commit(m)
    /\ UNCHANGED <<scaling_factor, handles, platform, component, previous>>

\* SlintWindowHandler::new: the handler of a window opened for `size` (what
\* SlintState::size returns) at the editor's scale factor.
NewHandler(size, scale_factor) ==
    LET physical_width == ScaleRound(size[1], scale_factor)
        physical_height == ScaleRound(size[2], scale_factor)
    IN  [alive |-> TRUE,
         physical_width |-> physical_width,
         physical_height |-> physical_height,
         scale_factor |-> scale_factor,
         pixel_buffer |-> WrappingMul(physical_width, physical_height),
         sb_surface |-> <<Max(physical_width, 1), Max(physical_height, 1)>>,
         slint_window |-> [size |-> <<physical_width, physical_height>>,
                           scale_factor |-> scale_factor,
                           redraw |-> TRUE],
         last_mouse_position |-> Origin,
         mouse_button_pressed |-> FALSE,
         unbounded_active |-> FALSE]

\* SlintEditor::spawn: scaling_factor.unwrap_or(1.0).
EditorScale == IF scaling_factor = <<>> THEN ScaleUnit ELSE scaling_factor[1]

\* SlintState as spawn's second read finds it: another thread may have
\* written to it since the first read, with set_user_scale_factor, with
\* PersistentField::set, or with the first of the two stores of set.
Between(state, write) ==
    IF write = <<>> THEN state
    ELSE IF write[1] = "set_user_scale_factor"
    THEN [state EXCEPT !.user_scale_factor = write[2]]
    ELSE IF write[1] = "set"
    THEN SetFields(state, write[2])
    ELSE [state EXCEPT !.size = write[2].size]

\* A window that takes over the mailbox of the session before.
KeptMouseControl(prev) == prev.request

\* SlintMouseControl::new() in spawn: a mailbox of the window's own, empty.
NewMouseControl(prev) == NoRequest

\* The step at which spawn panics, "none" if it does not: in
\* ensure_slint_platform, then in SlintWindowHandler::new converting the
\* window's handles, acquiring the softbuffer context and surface, and
\* multiplying the pixel count (in a build that checks).
SpawnPanic(inp) ==
    IF EnsureSlintPlatform(platform, GuiThread).panicked THEN "set_platform"
    ELSE IF BaseviewWindowToSurfaceTarget(inp.display, inp.window).panicked
    THEN "surface_target"
    ELSE IF inp.windowFails THEN "surface"
    ELSE IF inp.overflow = "panic" THEN "pixel_count"
    ELSE "none"

\* An open flag set before the window is opened.
OpenFlagSetFirst(state, opened) == [state EXCEPT !.open = TRUE]

\* spawn stores open = true once open_parented has returned.
OpenFlagAfterSpawn(state, opened) ==
    IF opened THEN [state EXCEPT !.open = TRUE] ELSE state

\* What one spawn leaves in platform.rs and in component_weak: the platform
\* ensured; and, if SlintWindowHandler::new got as far as building the
\* component, the pending window consumed and component_weak pointing at
\* the component, which a later panic of new drops again.
SpawnPlatform(at) ==
    [EnsureSlintPlatform(platform, GuiThread).platform EXCEPT
        !.pending[GuiThread] = IF at \in {"none", "pixel_count"} THEN <<>> ELSE @]

SpawnComponent(at, weak) ==
    [component EXCEPT
        !.weak = IF at = "none" THEN weak
                 ELSE IF at = "pixel_count" THEN "dead" ELSE @]

\* SlintEditor::spawn opens the window and builds the handler; a panic of
\* ensure_slint_platform or of SlintWindowHandler::new leaves spawn, and
\* nothing is opened.  spawn reads the size for the host window, and
\* SlintWindowHandler::new reads it again for the handler.
Spawn(inp) ==
    /\ ~handler.alive
    /\ platform.once # "running"
    /\ LET size == ScaledLogicalSize(slint_state)
           raced == Between(slint_state, inp.between)
           new == NewHandler(ScaledLogicalSize(raced), EditorScale)
           overflows == Overflows(new.physical_width, new.physical_height)
           at == SpawnPanic(inp)
           target == BaseviewWindowToSurfaceTarget(inp.display, inp.window)
       IN  /\ inp.overflow = "panic" => overflows /\ at = "pixel_count"
           /\ platform' = SpawnPlatform(at)
           /\ component' = SpawnComponent(at, "tracked")
           /\ slint_state' = OpenFlagAfterSpawn(raced, at = "none")
           /\ IF at # "none"
              THEN /\ call' = [NoCall EXCEPT
                                 !.entry = "spawn", !.panicked = TRUE,
                                 !.propagated = TRUE, !.panic_at = at,
                                 !.arg = <<handles>>,
                                 !.state = slint_state]
                   /\ UNCHANGED <<handler, request, host, handles>>
              ELSE /\ handler' = new
                   /\ handles' = handles + 1
                   /\ request' = NewMouseControl(previous)
                   /\ host' = [NoHost EXCEPT !.opened = size]
                   /\ call' = [NoCall EXCEPT
                                 !.entry = "spawn",
                                 !.arg = <<handles>>,
                                 !.state = slint_state,
                                 !.result = <<RawWindowHandle(inp.parent),
                                              target.raw_display_handle,
                                              target.raw_window_handle>>,
                                 !.log = <<Msg("ScaleFactorChanged", <<EditorScale>>, ""),
                                           Msg("set_size", <<new.physical_width,
                                                             new.physical_height>>, ""),
                                           Msg("WindowActiveChanged", <<1>>, ""),
                                           Msg("request_redraw", <<>>, "")>>]
    /\ UNCHANGED <<scaling_factor, previous>>

\* Drop for SlintEditorHandle: the open flag is cleared and the window closed,
\* which drops the handler with its surface, buffer and component; its
\* mailbox lives on if a clone of the session's SlintMouseControl is kept
\* outside the component.
DropSession(kept) ==
    /\ handler.alive
    /\ slint_state' = [slint_state EXCEPT !.open = FALSE]
    /\ handler' = NoHandler
    /\ request' = NoRequest
    /\ previous' = IF kept THEN [closed |-> TRUE, request |-> request]
                   ELSE previous
    /\ host' = NoHost
    /\ call' = [NoCall EXCEPT !.entry = "drop"]
    /\ handles' = handles - 1
    /\ component' = [component EXCEPT
                        !.weak = IF @ = "tracked" THEN "dead" ELSE @]
    /\ UNCHANGED <<scaling_factor, platform>>

\* The drop of a session none of whose producers outlives it.
DropHandle == DropSession(FALSE)

\* SlintEditor::spawn called while the window of an earlier spawn is open:
\* one more window and one more handle.  `handler` stays the handler of the
\* earlier window; the handler of this one is not followed.
SpawnAgain ==
    /\ handler.alive
    /\ handles < MaxHandles
    /\ platform.once # "running"
    /\ slint_state' = OpenFlagAfterSpawn(slint_state, TRUE)
    /\ handles' = handles + 1
    /\ platform' = SpawnPlatform("none")
    /\ component' = SpawnComponent("none", "other")
    /\ call' = StateCall("spawn", <<>>)
    /\ UNCHANGED <<scaling_factor, handler, request, host, ledger, previous>>

\* Drop for the SlintEditorHandle of a window whose handler is not followed:
\* if component_weak points at a window that is not followed, the window
\* dropped is that one, or, if there are several, may be another.
DropOtherHandle ==
    /\ handles > (IF handler.alive THEN 1 ELSE 0)
    /\ slint_state' = [slint_state EXCEPT !.open = FALSE]
    /\ handles' = handles - 1
    /\ \E last \in BOOLEAN :
          /\ ~last => handles > (IF handler.alive THEN 2 ELSE 1)
          /\ component' = [component EXCEPT
                              !.weak = IF @ = "other" /\ last THEN "dead" ELSE @]
    /\ call' = StateCall("drop", <<>>)
    /\ UNCHANGED <<scaling_factor, handler, request, host, ledger, platform,
                   previous>>

\* ------------------------------------------------------- specifications

\* Spec: every entry point with every panic point, the mailbox and its
\* producers, over a few host events.
SpecEvents ==
    {ResizedFromLogical(2, 3, ScaleUnit),
     ResizedFromLogical(2, 3, 2 * ScaleUnit),
     Msg("ButtonReleased", <<>>, "Left"),
     Msg("DragLeft", <<>>, "")}

SpecCallbacks == {EnableRequest(TRUE, 0), DisableRequest(0)}

Init == Created({<<2, 3>>}, {ScaleUnit}, {<<ScaleUnit>>})

Next ==
    \/ \E inp \in SpawnInputs : Spawn(inp) /\ UNCHANGED ledger
    \/ DropHandle /\ UNCHANGED ledger
    \/ \E r \in BOOLEAN : EnableUnboundedMovement(r, 0) /\ UNCHANGED ledger
    \/ DisableUnboundedMovement(0) /\ UNCHANGED ledger
    \/ \E inp \in FrameInputs(SpecCallbacks, {}, PanicPoints) : OnFrame(inp) /\ UNCHANGED ledger
    \/ \E ev \in SpecEvents : \E inp \in EventInputs(ev, SpecCallbacks, {}, PanicPoints, {}) :
           OnEvent(ev, inp) /\ UNCHANGED ledger

Spec == Init /\ [][Next]_vars

\* ResizeSpec: the resize protocol over window sizes with a zero dimension
\* and with a pixel count past the range of a u32, scales within and beyond
\* the epsilon of the cached one, and failing surface resizes.
ResizeEvents ==
    {ResizedFromLogical(2, 3, ScaleUnit),
     ResizedFromLogical(2, 3, ScaleUnit + (Epsilon \div 2)),
     ResizedFromLogical(2, 3, 2 * ScaleUnit),
     ResizedFromLogical(0, 3, ScaleUnit),
     ResizedFromLogical(4, 4, 2 * ScaleUnit),
     ResizedFromPhysical(3, 3, 2 * ScaleUnit),
     Msg("Focused", <<>>, "")}

ResizePanicPoints == {"scale_factor_changed", "dispatch_resized"}

ResizeInit == Created({<<2, 3>>, <<0, 3>>}, {ScaleUnit}, {<<ScaleUnit>>})

ResizeNext ==
    \/ \E inp \in SpawnInputs : Spawn(inp) /\ UNCHANGED ledger
    \/ DropHandle /\ UNCHANGED ledger
    \/ \E ev \in ResizeEvents :
         \E inp \in EventInputs(ev, {}, {TRUE}, ResizePanicPoints, {}) :
           OnEvent(ev, inp) /\ UNCHANGED ledger

ResizeSpec == ResizeInit /\ [][ResizeNext]_vars

\* MailboxSpec: producers and the polls of the entry points, every store
\* stamped with its own id.
Polled(c) == \E i \in 1..Len(c.log) : c.log[i].kind = "take_request"

\* The ledger after a producer stored `value` over the slot.
Stored(value) ==
    [ledger EXCEPT !.stores = Append(@, value),
                   !.next = @ + 1,
                   !.overwritten = IF request = NoRequest THEN @
                                   ELSE @ \cup {request[3]}]

\* The ledger after an entry-point call, which polls once unless a panic
\* ended it before.
Taken(c) ==
    IF ~Polled(c) THEN ledger
    ELSE [ledger EXCEPT !.stores = <<>>,
                        !.returned = IF c.taken = NoRequest THEN @
                                     ELSE Append(@, c.taken[3]),
                        !.last_take = [value |-> c.taken, history |-> ledger.stores]]

MailboxEvents == {Msg("ButtonReleased", <<>>, "Left"), Msg("DragLeft", <<>>, "")}

MailboxNext ==
    \/ Spawn(DefaultInput) /\ UNCHANGED ledger
    \/ \E r \in BOOLEAN :
           /\ ledger.next <= MaxStores
           /\ EnableUnboundedMovement(r, ledger.next)
           /\ ledger' = Stored(EnableRequest(r, ledger.next))
    \/ /\ ledger.next <= MaxStores
       /\ DisableUnboundedMovement(ledger.next)
       /\ ledger' = Stored(DisableRequest(ledger.next))
    \/ \E inp \in FrameInputs({}, {}, PanicPoints) :
           OnFrame(inp) /\ ledger' = Taken(call')
    \/ \E ev \in MailboxEvents : \E inp \in EventInputs(ev, {}, {}, PanicPoints, {}) :
           OnEvent(ev, inp) /\ ledger' = Taken(call')

MailboxSpec == Init /\ [][MailboxNext]_vars

\* StateSpec: the life of a SlintState: user scale changes, restores of
\* persisted state, host scale changes, windows opened and closed (also
\* overlapping), and resizes of the open window.
UserScales == {ScaleUnit, (3 * ScaleUnit) \div 2, 2 * ScaleUnit}

HostScales == {ScaleUnit, 2 * ScaleUnit}

StateSizes == {<<2, 3>>, <<20, 3>>}

\* What was persisted: SlintStates saved while open and while closed.
SavedStates ==
    {[FromSizeWithScale(size[1], size[2], scale) EXCEPT !.open = o] :
        size \in StateSizes, scale \in UserScales, o \in BOOLEAN}

StateEvents == {ResizedFromLogical(4, 3, ScaleUnit)}

StateInit == Created(StateSizes, {ScaleUnit}, {<<>>, <<ScaleUnit>>})

StateNext ==
    \/ \E inp \in SpawnInputs : Spawn(inp) /\ UNCHANGED ledger
    \/ SpawnAgain
    \/ DropHandle /\ UNCHANGED ledger
    \/ DropOtherHandle
    \/ \E scale \in UserScales : SetUserScaleFactor(scale)
    \/ \E saved \in SavedStates : PersistentSet(Deserialize(Serialize(saved)))
    \/ \E factor \in HostScales : SetScaleFactor(factor)
    \/ \E ev \in StateEvents : \E inp \in EventInputs(ev, {}, {}, {}, {}) :
           OnEvent(ev, inp) /\ UNCHANGED ledger

StateSpec == StateInit /\ [][StateNext]_vars

\* EventSpec: every kind of host event, at scale 1.0 and 2.0, with pointer
\* positions inside and left of the window, and failing dispatches.
InputEvents ==
    {Msg("CursorMoved", <<4, 7>>, ""),
     Msg("CursorMoved", <<-1, 2>>, ""),
     Msg("ButtonPressed", <<>>, "Left"),
     Msg("ButtonPressed", <<>>, "Back"),
     Msg("ButtonReleased", <<>>, "Left"),
     Msg("WheelScrolled", <<1, -2>>, "Lines"),
     Msg("WheelScrolled", <<3, -5>>, "Pixels"),
     Msg("CursorEntered", <<>>, ""),
     Msg("CursorLeft", <<>>, ""),
     Msg("DragEntered", <<5, 6>>, ""),
     Msg("DragMoved", <<6, 6>>, ""),
     Msg("DragLeft", <<>>, ""),
     Msg("DragDropped", <<6, 5>>, ""),
     Msg("KeyDown", <<>>, "Character(a)"),
     Msg("KeyUp", <<>>, "Enter"),
     Msg("Focused", <<>>, ""),
     Msg("Unfocused", <<>>, ""),
     Msg("WillClose", <<>>, ""),
     ResizedFromLogical(2, 3, 2 * ScaleUnit)}

EventNext ==
    \/ Spawn(DefaultInput) /\ UNCHANGED ledger
    \/ DropHandle /\ UNCHANGED ledger
    \/ \E ev \in InputEvents : \E inp \in EventInputs(ev, {}, {}, {}, {TRUE}) :
           OnEvent(ev, inp) /\ UNCHANGED ledger

EventSpec == Init /\ [][EventNext]_vars

\* FrameSpec: frame ticks whose mapping or presenting of the host buffer
\* fails, between requests of the UI and resizes.
FrameEvents == {ResizedFromLogical(2, 3, 2 * ScaleUnit), Msg("Focused", <<>>, "")}

FrameNext ==
    \/ Spawn(DefaultInput) /\ UNCHANGED ledger
    \/ DropHandle /\ UNCHANGED ledger
    \/ \E r \in BOOLEAN : EnableUnboundedMovement(r, 0) /\ UNCHANGED ledger
    \/ DisableUnboundedMovement(0) /\ UNCHANGED ledger
    \/ \E inp \in FrameInputs({}, {TRUE}, {}) : OnFrame(inp) /\ UNCHANGED ledger
    \/ \E ev \in FrameEvents : \E inp \in EventInputs(ev, {}, {}, {}, {}) :
           OnEvent(ev, inp) /\ UNCHANGED ledger

FrameSpec == Init /\ [][FrameNext]_vars

\* enable_unbounded_movement or disable_unbounded_movement on a clone of
\* the SlintMouseControl of the session closed last.
StoreToPrevious(value) ==
    /\ previous.closed
    /\ previous' = [previous EXCEPT !.request = Store(@, value)]
    /\ UNCHANGED <<slint_state, scaling_factor, handler, request, host, call,
                   ledger, handles, platform, component>>

\* SessionSpec: windows opened, used and closed one after another, with
\* producers of the open session and producers still holding the mailbox
\* of the session before.
SessionEvents ==
    {Msg("CursorMoved", <<4, 7>>, ""), Msg("ButtonPressed", <<>>, "Left")}

SessionNext ==
    \/ Spawn(DefaultInput) /\ UNCHANGED ledger
    \/ \E kept \in BOOLEAN : DropSession(kept) /\ UNCHANGED ledger
    \/ \E value \in Requests(0) : StoreToPrevious(value)
    \/ \E r \in BOOLEAN : EnableUnboundedMovement(r, 0) /\ UNCHANGED ledger
    \/ DisableUnboundedMovement(0) /\ UNCHANGED ledger
    \/ \E inp \in FrameInputs({}, {}, {}) : OnFrame(inp) /\ UNCHANGED ledger
    \/ \E ev \in SessionEvents : \E inp \in EventInputs(ev, {}, {}, {}, {}) :
           OnEvent(ev, inp) /\ UNCHANGED ledger

SessionSpec == Init /\ [][SessionNext]_vars

\* RaceSpec: windows opened while another thread writes to SlintState
\* between the two reads of spawn, and writes to it at other times.
Writes ==
    {<<"set_user_scale_factor", scale>> : scale \in UserScales}
    \cup {<<"set", saved>> : saved \in SavedStates}
    \cup {<<"set_size", saved>> : saved \in SavedStates}

RaceInputs == {[DefaultInput EXCEPT !.between = w] : w \in Writes \cup {<<>>}}

RaceNext ==
    \/ \E inp \in RaceInputs : Spawn(inp) /\ UNCHANGED ledger
    \/ DropHandle /\ UNCHANGED ledger
    \/ \E scale \in UserScales : SetUserScaleFactor(scale)
    \/ \E saved \in SavedStates : PersistentSet(Deserialize(Serialize(saved)))

RaceSpec == StateInit /\ [][RaceNext]_vars

\* SizeSpec: windows opened and closed at every user scale; the host
\* reports the logical size it opened the window with, at its own scale, or
\* another size.
SizeEvents ==
    {ResizedFromLogical(host.opened[1], host.opened[2], scale) :
        scale \in HostScales}
    \cup {ResizedFromLogical(2, 3, ScaleUnit)}

SizeInit == Created({<<2, 3>>}, UserScales, {<<ScaleUnit>>})

SizeNext ==
    \/ Spawn(DefaultInput) /\ UNCHANGED ledger
    \/ DropHandle /\ UNCHANGED ledger
    \/ \E ev \in SizeEvents : \E inp \in EventInputs(ev, {}, {}, {}, {}) :
           OnEvent(ev, inp) /\ UNCHANGED ledger

SizeSpec == SizeInit /\ [][SizeNext]_vars

\* A slot that is read and left as it is.
PeekPending(slot) == [window |-> slot, slot |-> slot]

\* cell.borrow_mut().take() on PENDING_WINDOW: the window in the slot, if
\* any, and the slot empty.
TakePending(slot) == [window |-> slot, slot |-> <<>>]

\* set_pending_window(window) on thread t, for a window just made.
SetPendingWindow(t) ==
    /\ platform.windows < MaxWindows
    /\ LET window == platform.windows + 1
       IN  /\ platform' = [platform EXCEPT !.windows = window,
                                           !.pending[t] = <<window>>]
           /\ call' = [NoCall EXCEPT !.entry = "set_pending_window",
                                     !.arg = <<t, window>>]
    /\ UNCHANGED <<slint_state, scaling_factor, handler, request, host, ledger,
                   handles, component, previous>>

\* NihPlugSlintPlatform::create_window_adapter, which the Slint runtime calls on
\* thread t when a component is built: the pending window if there is one,
\* else a MinimalSoftwareWindow made for the call.
CreateWindowAdapter(t) ==
    /\ platform.slint = "bridge"
    /\ Len(platform.adapters) <= MaxWindows
    /\ LET taken == TakePending(platform.pending[t])
           fallback == taken.window = <<>>
           window == IF fallback THEN platform.windows + 1 ELSE taken.window[1]
       IN  /\ fallback => platform.windows < MaxWindows
           /\ platform' = [platform EXCEPT
                              !.windows = IF fallback THEN window ELSE @,
                              !.pending[t] = taken.slot,
                              !.adapters = Append(@, window)]
           /\ call' = [NoCall EXCEPT !.entry = "create_window_adapter",
                                     !.arg = <<t, platform.pending>>,
                                     !.result = <<window>>]
    /\ UNCHANGED <<slint_state, scaling_factor, handler, request, host, ledger,
                   handles, component, previous>>

\* PendingSpec: windows registered and components built on every thread,
\* around the editor's own window opening and closing.
PendingNext ==
    \/ Spawn(DefaultInput) /\ UNCHANGED ledger
    \/ DropHandle /\ UNCHANGED ledger
    \/ \E t \in Threads : SetPendingWindow(t)
    \/ \E t \in Threads : CreateWindowAdapter(t)

PendingSpec == Init /\ [][PendingNext]_vars

\* A notification that calls the callback without upgrading the weak handle.
InvokeWithoutUpgrade(c) == c.registered

\* SlintEditor::invoke_param_changed_callback: whether the callback is
\* called, which takes a registered callback and a component_weak that
\* upgrades.
InvokeParamChangedCallback(c) ==
    c.registered /\ c.weak \in {"tracked", "other"}

\* Editor::param_value_changed, param_values_changed and
\* param_modulation_changed; the last does nothing.
ParamChanged(entry) ==
    /\ call' = [StateCall(entry, <<>>) EXCEPT
                  !.result = <<entry # "param_modulation_changed"
                               /\ InvokeParamChangedCallback(component)>>]
    /\ UNCHANGED <<slint_state, scaling_factor, handler, request, host, ledger,
                   handles, platform, component, previous>>

ParamEntries ==
    {"param_value_changed", "param_values_changed", "param_modulation_changed"}

\* NotifySpec: the host's parameter notifications between windows opening,
\* failing to open and closing, for an editor with and without a callback.
NotifyInit ==
    /\ CreatedEditor(StateSizes, {ScaleUnit}, {<<ScaleUnit>>})
    /\ platform = NoPlatform("none")
    /\ \E registered \in BOOLEAN : component = NoComponent(registered)

NotifyNext ==
    \/ \E inp \in SpawnInputs : Spawn(inp) /\ UNCHANGED ledger
    \/ SpawnAgain
    \/ DropHandle /\ UNCHANGED ledger
    \/ DropOtherHandle
    \/ \E entry \in ParamEntries : ParamChanged(entry)

NotifySpec == NotifyInit /\ [][NotifyNext]_vars

\* HandleSpec: windows opened and closed over every kind of parent handle
\* the host can pass and every kind of display and window handle baseview
\* can report for the window, Wayland standing for the kinds the bridge
\* does not convert, with null and non-null raw values.
ParentWindowHandles ==
    {Handle(kind, raw) : kind \in {"X11Window", "AppKitNsView", "Win32Hwnd"},
                         raw \in RawValues}

DisplayHandles ==
    {Handle(kind, raw) : kind \in {"AppKit", "Xlib", "Xcb", "Windows", "Wayland"},
                         raw \in RawValues}

WindowHandles ==
    {Handle(kind, raw) : kind \in {"AppKit", "Xlib", "Xcb", "Win32", "Wayland"},
                         raw \in RawValues}

HandleInputs ==
    {[DefaultInput EXCEPT !.parent = p, !.display = d, !.window = w] :
        p \in ParentWindowHandles, d \in DisplayHandles, w \in WindowHandles}

HandleNext ==
    \/ \E inp \in HandleInputs : Spawn(inp) /\ UNCHANGED ledger
    \/ DropHandle /\ UNCHANGED ledger

HandleSpec == Init /\ [][HandleNext]_vars

\* ensure_slint_platform called by thread t.
CallEnsureSlintPlatform(t) ==
    /\ platform.pc[t] = "idle"
    /\ platform' = GetOrInit(platform, t)
    /\ UNCHANGED <<slint_state, scaling_factor, handler, request, host, call,
                   ledger, handles, component, previous>>

\* Thread t runs the closure of get_or_init to its end or to its panic.
RunClosure(t) ==
    /\ platform.pc[t] = "init"
    /\ platform' = SetPlatform(platform, t)
    /\ UNCHANGED <<slint_state, scaling_factor, handler, request, host, call,
                   ledger, handles, component, previous>>

\* A thread waiting in get_or_init goes on once no closure is running: it
\* returns if the cell is initialised, and runs the closure itself if the
\* closure it waited for panicked.
WakeWaiter(t) ==
    /\ platform.pc[t] = "waiting"
    /\ platform.once # "running"
    /\ platform' = GetOrInit(platform, t)
    /\ UNCHANGED <<slint_state, scaling_factor, handler, request, host, call,
                   ledger, handles, component, previous>>

\* Thread t is back in its caller, by return or by unwinding.
LeaveEnsureSlintPlatform(t) ==
    /\ platform.pc[t] \in {"returned", "panicked"}
    /\ platform' = [platform EXCEPT !.pc[t] = "idle"]
    /\ UNCHANGED <<slint_state, scaling_factor, handler, request, host, call,
                   ledger, handles, component, previous>>

\* PlatformSpec: the threads of a process call ensure_slint_platform
\* concurrently, in a process where the Slint runtime has no platform yet
\* or where other code has set one.
PlatformInit ==
    /\ CreatedEditor({<<2, 3>>}, {ScaleUnit}, {<<ScaleUnit>>})
    /\ \E slint \in {"none", "other"} : platform = NoPlatform(slint)
    /\ component = NoComponent(TRUE)

PlatformNext ==
    \/ \E t \in Threads : CallEnsureSlintPlatform(t)
    \/ \E t \in Threads : RunClosure(t)
    \/ \E t \in Threads : WakeWaiter(t)
    \/ \E t \in Threads : LeaveEnsureSlintPlatform(t)

PlatformSpec == PlatformInit /\ [][PlatformNext]_vars

\* --------------------------------------------------------------- claims

\* The last step was a call of one of the two entry points of the bridge.
EntryPointCall == call.entry \in {"on_frame", "on_event"}

\* The host calls window.enable_unbounded_mouse_movement of the last call.
HostCalls ==
    SelectSeq(call.log, LAMBDA c : c.kind = "enable_unbounded_mouse_movement")

\* C1: a panic raised by any step of on_frame or on_event does not leave the
\* entry point: on_event returns Ignored and on_frame returns normally.
C1_PanicContained ==
    (EntryPointCall /\ call.panicked) =>
        /\ ~call.propagated
        /\ call.entry = "on_event" => call.status = "Ignored"
        /\ call.entry = "on_frame" => call.status = "()"

\* A panic raised by the host call of the cursor poll at the end of on_event,
\* after on_event_inner had already produced Captured.
C1_Witness ==
    /\ call.entry = "on_event"
    /\ call.panic_at = "host_call"
    /\ \E i \in 1..Len(call.log) : call.log[i].kind = "PointerReleased"

\* C9: a consumed request that asks for the mode the bridge is already in
\* makes no host call and leaves unbounded_active alone; a host call is made
\* only for a request that changes the mode, once, with the requested mode.
C9_NoOpWhenAlreadyInMode ==
    EntryPointCall =>
        /\ (call.taken # NoRequest
                /\ call.taken[1] = call.before.unbounded_active) =>
              /\ HostCalls = <<>>
              /\ handler.unbounded_active = call.before.unbounded_active
        /\ HostCalls # <<>> =>
              /\ Len(HostCalls) = 1
              /\ call.taken # NoRequest
              /\ call.taken[1] # call.before.unbounded_active
              /\ HostCalls[1].n[1] = Bit(call.taken[1])

\* An enable request consumed while unbounded mode was already active.
C9_Witness ==
    /\ EntryPointCall
    /\ call.taken # NoRequest
    /\ call.taken[1]
    /\ call.before.unbounded_active
    /\ handler.unbounded_active

\* C10: between entry-point calls, unbounded_active is the mode the bridge
\* last put the host pointer into, also after a contained panic.
C10_ActiveMirrorsHost ==
    handler.alive => handler.unbounded_active = host.unbounded

\* The last call was on_event with a Resized event.
ResizedCall == call.entry = "on_event" /\ call.ev.kind = "Resized"

\* Pixel buffer, softbuffer surface and Slint window all have this size.
AllAgree(h, width, height) ==
    /\ h.pixel_buffer = width * height
    /\ h.sb_surface = <<width, height>>
    /\ h.slint_window.size = <<width, height>>

\* C2: after a panic contained inside on_event, pixel_buffer.len() is
\* physical_width * physical_height and the surface has that size.
C2_ConsistentAfterContainedPanic ==
    (call.entry = "on_event" /\ call.panicked) =>
        /\ handler.pixel_buffer = handler.physical_width * handler.physical_height
        /\ handler.sb_surface = <<handler.physical_width, handler.physical_height>>

\* C3: after window open and after every completed on_event carrying a
\* Resized event, with a physical width and height above 0,
\* pixel_buffer.len() is physical_width * physical_height.
C3_BufferLenIsProduct ==
    (/\ handler.alive
     /\ call.entry = "spawn" \/ (ResizedCall /\ ~call.panicked)
     /\ handler.physical_width > 0 /\ handler.physical_height > 0) =>
        handler.pixel_buffer = handler.physical_width * handler.physical_height

\* C4: after on_event handled a Resized event, pixel buffer, surface and
\* Slint window all have the new physical size, or all still have the
\* previous one.
C4_ResizeAtomic ==
    (ResizedCall /\ ~call.panicked) =>
        \/ AllAgree(handler, call.ev.n[5], call.ev.n[6])
        \/ AllAgree(handler, call.before.physical_width, call.before.physical_height)

\* The positions in the log of the last call of the entries of these kinds.
Positions(kinds) == {i \in 1..Len(call.log) : call.log[i].kind \in kinds}

\* The host's scale of the last Resized event is more than 0.001 away from
\* the scale the bridge had cached.
HostScaleDiffers == Abs(call.ev.n[7] - call.before.scale_factor) > Epsilon

\* C5: when the scale of a Resized event differs from the cached one by more
\* than the epsilon, Slint is told ScaleFactorChanged with the host's scale
\* before set_size and before any Resized of that event, and a completed
\* call has told it all three.
C5_ScaleChangeBeforeResize ==
    (ResizedCall /\ HostScaleDiffers) =>
        /\ \A j \in Positions({"set_size", "Resized"}) :
              \E i \in Positions({"ScaleFactorChanged"}) :
                  i < j /\ call.log[i].n = <<call.ev.n[7]>>
        /\ ~call.panicked =>
              /\ Positions({"ScaleFactorChanged"}) # {}
              /\ Positions({"set_size"}) # {}
              /\ Positions({"Resized"}) # {}

\* Open at logical (2,3), scale 1.0, a buffer of 6; then a resize to physical
\* (4,6) at scale 2.0: a buffer of 24, the scale change told first.
C5_Witness ==
    /\ ResizedCall /\ ~call.panicked
    /\ call.before.scale_factor = ScaleUnit
    /\ call.before.pixel_buffer = 6
    /\ call.ev.n[7] = 2 * ScaleUnit
    /\ <<call.ev.n[5], call.ev.n[6]>> = <<4, 6>>
    /\ handler.pixel_buffer = 24
    /\ call.log[1].kind = "ScaleFactorChanged"

\* C6: on a Resized event whose scale is more than 0.001 from the cached
\* one, the cache takes the host's value and one ScaleFactorChanged is
\* dispatched; otherwise the cache is unchanged and none is dispatched; so
\* after a completed resize the cache is within 0.001 of the host's scale.
C6_ScaleReconciled ==
    ResizedCall =>
        /\ HostScaleDiffers =>
              /\ handler.scale_factor = call.ev.n[7]
              /\ Cardinality(Positions({"ScaleFactorChanged"})) = 1
        /\ ~HostScaleDiffers =>
              /\ handler.scale_factor = call.before.scale_factor
              /\ Positions({"ScaleFactorChanged"}) = {}
        /\ Abs(handler.scale_factor - call.ev.n[7]) <= Epsilon

\* A resize whose scale is within the epsilon of a different cached scale,
\* after one that changed the cache.
C6_Witness ==
    /\ ResizedCall /\ ~call.panicked
    /\ ~HostScaleDiffers
    /\ call.ev.n[7] # call.before.scale_factor
    /\ handler.scale_factor = call.before.scale_factor

\* (enable, restore_position) of a stored value, without the id of the store.
Payload(value) == IF value = NoRequest THEN NoRequest ELSE <<value[1], value[2]>>

Last(seq) == seq[Len(seq)]

\* C7: the mailbox holds only the last write: after stores with no take in
\* between the slot holds the value of the final one, and take_request
\* returns it.
C7_LastWriteWins ==
    /\ ledger.stores # <<>> => Payload(request) = Payload(Last(ledger.stores))
    /\ ledger.last_take.history # <<>> =>
          Payload(ledger.last_take.value) = Payload(Last(ledger.last_take.history))

\* A take after enable(true), enable(true), disable: it returned (false, false).
C7_Witness ==
    /\ Len(ledger.last_take.history) = 3
    /\ Payload(ledger.last_take.history[1]) = <<TRUE, TRUE>>
    /\ Payload(ledger.last_take.history[2]) = <<TRUE, TRUE>>
    /\ Payload(ledger.last_take.value) = <<FALSE, FALSE>>

\* How often take_request returned the value of this store.
TimesReturned(id) ==
    Cardinality({i \in 1..Len(ledger.returned) : ledger.returned[i] = id})

\* C8: every stored request is still in the slot, or was returned by exactly
\* one take_request, or was overwritten by a later store: exactly one of the
\* three; and a take with no store since the take before returns None.
C8_TakeIsReadAndClear ==
    /\ \A id \in 1..(ledger.next - 1) :
          /\ TimesReturned(id) <= 1
          /\ Bit(request # NoRequest /\ request[3] = id) + TimesReturned(id)
                + Bit(id \in ledger.overwritten) = 1
    /\ ledger.last_take.history = <<>> => ledger.last_take.value = NoRequest

\* One store returned by a take, one overwritten, one waiting in the slot.
C8_Witness ==
    /\ Len(ledger.returned) = 1
    /\ Cardinality(ledger.overwritten) = 1
    /\ request # NoRequest
    /\ ledger.last_take.history = <<>>

\* The kinds of the log entries that are events dispatched to the UI runtime.
UiEventKinds ==
    {"PointerMoved", "PointerPressed", "PointerReleased", "PointerScrolled",
     "PointerExited", "KeyPressed", "KeyReleased", "Resized",
     "WindowActiveChanged", "CloseRequested", "ScaleFactorChanged"}

\* The log entries of the last call from which the UI runtime runs callbacks
\* or renders.
UiWork == UiEventKinds \cup {"update_timers_and_animations", "render", "store"}

IsRounded(r, n, d) == 2 * r * d - d <= 2 * n /\ 2 * n < 2 * r * d + d

\* r is n/d rounded and cut to the range of a u32.
IsRoundedU32(r, n, d) ==
    IF 2 * n + d >= 2 * (U32Max + 1) * d THEN r = U32Max ELSE IsRounded(r, n, d)

\* C12: for the stored size (w,h) and user scale s, SlintState::size()
\* is (round(w*s), round(h*s)), in every state the SlintState gets into.
C12_SizeIsRoundedProduct ==
    \A i \in 1..2 :
        IsRounded(ScaledLogicalSize(slint_state)[i],
                  slint_state.size[i] * slint_state.user_scale_factor, ScaleUnit)

\* C12 as amended: size() is (round(w*s), round(h*s)) with each product
\* cut to the range of a u32.
C12_SizeIsRoundedProductInU32 ==
    \A i \in 1..2 :
        IsRoundedU32(ScaledLogicalSize(slint_state)[i],
                     slint_state.size[i] * slint_state.user_scale_factor, ScaleUnit)

\* (2,3) at user scale 1.5 is (3,5): 4.5 rounds away from zero.
C12_Witness ==
    /\ call.entry = "set_user_scale_factor"
    /\ slint_state.size = <<2, 3>>
    /\ slint_state.user_scale_factor = (3 * ScaleUnit) \div 2
    /\ ScaledLogicalSize(slint_state) = <<3, 5>>

\* C13: set_user_scale_factor called while a window is open leaves the
\* size that size() reports, and the physical dimensions of the bridge, as
\* they were.
C13_UserScaleTakesEffectOnReopen ==
    (call.entry = "set_user_scale_factor" /\ call.state.open) =>
        /\ ScaledLogicalSize(slint_state) = ScaledLogicalSize(call.state)
        /\ handler.physical_width = call.before.physical_width
        /\ handler.physical_height = call.before.physical_height

C15_OpenWhileHandleAlive == slint_state.open <=> handles > 0

\* C16: a deserialized SlintState has open == false, and
\* PersistentField::set stores size and user_scale_factor of the value it
\* is given and leaves the open flag.
C16_OpenNotPersisted ==
    call.entry = "set" =>
        /\ ~call.arg[1].open
        /\ slint_state.open = call.state.open
        /\ slint_state.size = call.arg[1].size
        /\ slint_state.user_scale_factor = call.arg[1].user_scale_factor

\* A restore into the SlintState of an open window that changed its size
\* and its user scale: it is still open.
C16_Witness ==
    /\ call.entry = "set"
    /\ call.state.open /\ slint_state.open /\ handler.alive
    /\ slint_state.size # call.state.size
    /\ slint_state.user_scale_factor # call.state.user_scale_factor

\* The last call was an on_event that no panic ended.
HandledEvent == call.entry = "on_event" /\ ~call.panicked

\* The calls of try_dispatch_event the last call made.
TryDispatchCalls == Positions({"try_dispatch_event"})

\* The events the last call handed to try_dispatch_event: each is the log
\* entry before the entry of the call.
Dispatched == {call.log[j - 1] : j \in TryDispatchCalls}

BackFilledKinds == {"ButtonPressed", "ButtonReleased", "WheelScrolled"}

\* The position of a pointer event sent to the UI runtime.
PositionOf(slint_event) == SubSeq(slint_event.n, 1, 4)

\* The position a CursorMoved host event reports.
MovedTo(ev) == LogicalPosition(Frac(ev.n[1], 1), Frac(ev.n[2], 1))

\* The position a CursorMoved host event reports, a negative coordinate
\* taken as 0.
MovedToClamped(ev) ==
    LogicalPosition(Frac(IF ev.n[1] < 0 THEN 0 ELSE ev.n[1], 1),
                    Frac(IF ev.n[2] < 0 THEN 0 ELSE ev.n[2], 1))

DeltaOf(slint_event) == SubSeq(slint_event.n, 5, 6)

\* C18: a WheelScrolled host event with ScrollDelta::Lines{x,y} is
\* dispatched as pointer-scrolled with deltas (20*x, 20*y), one with
\* ScrollDelta::Pixels{x,y} with deltas (x, y), at every scale factor.
C18_WheelDeltas ==
    (HandledEvent /\ call.ev.kind = "WheelScrolled") =>
        /\ Cardinality(TryDispatchCalls) = 1
        /\ \A e \in Dispatched :
              /\ e.kind = "PointerScrolled"
              /\ call.ev.tag = "Lines" =>
                    DeltaOf(e) = <<20 * call.ev.n[1], 20 * call.ev.n[2]>>
              /\ call.ev.tag = "Pixels" =>
                    DeltaOf(e) = <<call.ev.n[1], call.ev.n[2]>>

\* Lines{1,-2} at scale factor 2.0: pointer-scrolled by (20,-40).
C18_Witness ==
    /\ HandledEvent
    /\ call.ev = Msg("WheelScrolled", <<1, -2>>, "Lines")
    /\ call.before.scale_factor = 2 * ScaleUnit
    /\ \E e \in Dispatched : DeltaOf(e) = <<20, -40>>

\* The log entries of the last call that reach the UI runtime.
UiCalls ==
    Positions(UiEventKinds \cup {"try_dispatch_event", "set_size",
                                 "update_timers_and_animations", "request_redraw"})

\* C19: a drag-and-drop host event has no mapping: on_event returns
\* Ignored, nothing reaches the UI runtime, and the position cache and the
\* button flag are as before.
C19_DragEventsDropped ==
    (HandledEvent /\ call.ev.kind \in DragKinds) =>
        /\ call.status = "Ignored"
        /\ UiCalls = {}
        /\ handler.last_mouse_position = call.before.last_mouse_position
        /\ handler.mouse_button_pressed = call.before.mouse_button_pressed

\* A DragMoved at (6,6) while a button is down and the pointer was at (4,7).
C19_Witness ==
    /\ HandledEvent
    /\ call.ev = Msg("DragMoved", <<6, 6>>, "")
    /\ call.status = "Ignored"
    /\ handler.mouse_button_pressed
    /\ handler.last_mouse_position = <<4, 1, 7, 1>>

\* What translate_event maps the event of the last call to, back-filled.
Translated ==
    {BackFill(e, call.before.last_mouse_position) :
        e \in {TranslateEvent(call.ev, handler.scale_factor)[i] :
                  i \in 1..Len(TranslateEvent(call.ev, handler.scale_factor))}}

\* The dispatch of the last call reported an error.
DispatchFailed == \E j \in TryDispatchCalls : call.log[j].tag = "err"

\* C20: absent a panic on_event returns Captured for every host event with
\* a mapping and Ignored for every other; a mapped event hands exactly one
\* event, its translation, to try_dispatch_event, an unmapped one none; and
\* an error reported by the dispatch does not change the status.
C20_CapturedIffMapped ==
    HandledEvent =>
        /\ call.ev.kind \in DragKinds =>
              call.status = "Ignored" /\ TryDispatchCalls = {}
        /\ call.ev.kind \notin DragKinds =>
              /\ call.status = "Captured"
              /\ Cardinality(TryDispatchCalls) = 1
              /\ Dispatched = Translated

\* A key press whose dispatch the UI runtime turned down: Captured.
C20_Witness ==
    /\ HandledEvent
    /\ call.ev.kind = "KeyDown"
    /\ DispatchFailed
    /\ call.status = "Captured"
    /\ \E e \in Dispatched : e.kind = "KeyPressed" /\ e.tag = "a"

\* The last call was on_frame.
FrameCall == call.entry = "on_frame"

\* Every log entry of the last call of the first kinds precedes every entry
\* of the second.
Precede(first, second) ==
    \A i \in Positions(first), j \in Positions(second) : i < j

PollSteps == {"take_request", "enable_unbounded_mouse_movement"}

TimerSteps == {"update_timers_and_animations", "store"}

RenderSteps == {"request_redraw", "render"}

PresentSteps == {"buffer_mut", "present"}

\* C24: within one on_frame call the poll of the cursor requests comes
\* first, then the advance of timers and animations, then the render, then
\* the blit and present; a call that no panic ended has made all four.
C24_FrameOrder ==
    FrameCall =>
        /\ Precede(PollSteps, TimerSteps \cup RenderSteps \cup PresentSteps)
        /\ Precede(TimerSteps, RenderSteps \cup PresentSteps)
        /\ Precede(RenderSteps, PresentSteps)
        /\ Precede({"buffer_mut"}, {"present"})
        /\ ~call.panicked =>
              \A kind \in {"take_request", "update_timers_and_animations",
                           "render", "buffer_mut"} : Positions({kind}) # {}

\* A tick that switched unbounded mode on, ran a timer callback, rendered
\* and presented.
C24_Witness ==
    /\ FrameCall /\ ~call.panicked
    /\ HostCalls # <<>>
    /\ Positions({"store"}) # {}
    /\ Positions({"render"}) # {}
    /\ Positions({"present"}) # {}

\* C25: a frame tick that finds no repaint pending in the UI runtime
\* performs no render, no blit and no present.
C25_RenderOnlyIfPending ==
    (FrameCall /\ ~call.before.slint_window.redraw) =>
        Positions({"render", "buffer_mut", "present"}) = {}

\* C26: a frame tick on which mapping or presenting the host buffer failed
\* returns normally, with pixel buffer, dimensions, scale and surface as
\* before and the cursor mode as the poll left it; and every tick that no
\* panic ended has tried to map the buffer.
PresentFailed ==
    \E i \in Positions(PresentSteps) : call.log[i].tag = "err"

C26_PresentFailureSwallowed ==
    FrameCall =>
        /\ PresentFailed =>
              /\ ~call.panicked /\ call.status = "()"
              /\ handler.pixel_buffer = call.before.pixel_buffer
              /\ handler.physical_width = call.before.physical_width
              /\ handler.physical_height = call.before.physical_height
              /\ handler.scale_factor = call.before.scale_factor
              /\ handler.sb_surface = call.before.sb_surface
              /\ handler.unbounded_active =
                    (IF call.taken = NoRequest THEN call.before.unbounded_active
                     ELSE call.taken[1])
        /\ ~call.panicked => Positions({"buffer_mut"}) # {}

\* A tick whose present failed, after a tick whose mapping of the buffer
\* had failed left a request to switch unbounded mode on applied.
C26_Witness ==
    /\ FrameCall /\ ~call.panicked
    /\ \E i \in Positions({"present"}) : call.log[i].tag = "err"
    /\ handler.unbounded_active
    /\ handler.pixel_buffer = 24

\* C28: the button-down flag is updated before the event is translated, and
\* after any sequence of presses and releases it is true exactly when the
\* user holds at least one mouse button down.
C28_ButtonFlagTracksHeld ==
    /\ HandledEvent /\ call.ev.kind \in {"ButtonPressed", "ButtonReleased"} =>
          handler.mouse_button_pressed = (call.ev.kind = "ButtonPressed")
    /\ handler.alive => (handler.mouse_button_pressed <=> host.held # {})

\* The pointer-moved events the last call handed to the UI runtime.
PointerMoves == {e \in Dispatched : e.kind = "PointerMoved"}

\* C30: at every scale factor the cached position that later events are
\* back-filled with is the position of the pointer-moved UI event dispatched
\* for the most recent CursorMoved.
C30_CacheIsDispatchedPosition ==
    (HandledEvent /\ call.ev.kind = "CursorMoved") =>
        /\ PointerMoves # {}
        /\ \A e \in PointerMoves : PositionOf(e) = handler.last_mouse_position

\* The threads at a place in ensure_slint_platform.
ThreadsAt(pc) == {t \in Threads : platform.pc[t] = pc}

C22_HandleAdaptationTotal ==
    call.entry = "spawn" =>
        /\ call.panic_at # "surface_target"
        /\ ~call.panicked => Len(call.result) = 3

\* C27: if acquiring the softbuffer context or surface fails while a window
\* is being opened, the open is aborted: the panic leaves spawn, no handler
\* exists, no editor handle was returned, and is_open() is still false.
C27_FailedOpenAborted ==
    (call.entry = "spawn" /\ call.panic_at = "surface") =>
        /\ call.panicked /\ call.propagated
        /\ ~handler.alive
        /\ handles = call.arg[1] /\ handles = 0
        /\ slint_state = call.state
        /\ ~slint_state.open
        /\ component.weak # "tracked"
        /\ request = NoRequest

\* An open that failed at the surface, after an earlier window was opened
\* and closed.
C27_Witness ==
    /\ call.entry = "spawn" /\ call.panic_at = "surface"
    /\ component.weak = "dead"
    /\ platform.once = "done"

\* The last call was a notification of changed parameter values.
Notified == call.entry \in {"param_value_changed", "param_values_changed"}

\* component_weak points at the component of a window that is open.
ComponentAlive == component.weak \in {"tracked", "other"}

\* C23: a notification calls the user callback exactly when a callback is
\* registered and the component component_weak points at is alive; that
\* component is one of an open window, so before the first open and with
\* every window closed the notification is skipped.
C23_CallbackIffRegisteredAndAlive ==
    /\ Notified =>
          (call.result[1] <=> component.registered /\ ComponentAlive)
    /\ call.entry = "param_modulation_changed" => ~call.result[1]
    /\ component.weak = "tracked" => handler.alive
    /\ component.weak = "other" => handles > (IF handler.alive THEN 1 ELSE 0)
    /\ platform.once = "uninit" => component.weak = "none"
    /\ (Notified /\ handles = 0) => ~call.result[1]

\* A notification with a callback registered and one window open: the
\* callback is called.
C23_Witness ==
    /\ Notified
    /\ call.result[1]
    /\ handler.alive
    /\ handles = 1

\* The last call was create_window_adapter.
AdapterCall == call.entry = "create_window_adapter"

\* C29: create_window_adapter returns the window set_pending_window last
\* registered on its thread and empties the slot of that thread only; a
\* later registration replaces an unconsumed one; with the slot empty the
\* window returned is a new one; and no window is ever returned twice.
C29_PendingWindowConsumedOnce ==
    /\ AdapterCall =>
          LET t == call.arg[1]
              before == call.arg[2]
              window == call.result[1]
          IN  /\ before[t] # <<>> => window = before[t][1]
              /\ before[t] = <<>> =>
                    /\ window = platform.windows
                    /\ \A u \in Threads : before[u] # <<window>>
              /\ platform.pending[t] = <<>>
              /\ \A u \in Threads \ {t} : platform.pending[u] = before[u]
              /\ Last(platform.adapters) = window
    /\ call.entry = "set_pending_window" =>
          platform.pending[call.arg[1]] = <<call.arg[2]>>
    /\ \A i, j \in DOMAIN platform.adapters :
          i # j => platform.adapters[i] # platform.adapters[j]
    /\ \A t \in Threads : platform.pending[t] # <<>> =>
          \A i \in DOMAIN platform.adapters :
              platform.adapters[i] # platform.pending[t][1]

\* A second registration replaced the first on the GUI thread and was
\* returned by the next create_window_adapter there, after a call with the
\* slot empty had returned a window of its own.
C29_Witness ==
    /\ AdapterCall
    /\ call.arg[1] = GuiThread
    /\ call.arg[2][GuiThread] = <<3>>
    /\ platform.adapters = <<1, 3>>

\* The stores the callbacks of the last call made before its poll.
StoresBeforePoll ==
    {j \in Positions({"store"}) : \A i \in Positions({"take_request"}) : j < i}

\* C31: after a poll that consumed a request unbounded_active is the enable
\* flag of the request written last, whatever it was before; and a request
\* pending when an entry-point call begins has been consumed, itself or the
\* one written over it, when the call ends without panic.
C31_PollAppliesLastRequest ==
    EntryPointCall =>
        /\ call.taken # NoRequest => handler.unbounded_active = call.taken[1]
        /\ (~call.panicked /\ call.pending # NoRequest) =>
              /\ call.taken # NoRequest
              /\ StoresBeforePoll = {} => call.taken = call.pending
        /\ \A j \in StoresBeforePoll :
              (\A k \in StoresBeforePoll : k <= j) /\ call.taken # NoRequest =>
                 call.log[j].n = <<Bit(call.taken[1]), Bit(call.taken[2])>>

\* The last call handled a Resized event reporting the logical size the
\* host window was opened with.
ReportedOpenedSize ==
    /\ HandledEvent
    /\ call.ev.kind = "Resized"
    /\ call.ev.n[1] = host.opened[1] * call.ev.n[2]
    /\ call.ev.n[3] = host.opened[2] * call.ev.n[4]

\* C32: after a window is opened and a Resized event reporting the logical
\* size it was opened with is handled, SlintState::size() is what it was
\* before the open, which is the size the window was opened with, at every
\* user scale factor.
C32_SizeKeptByResizeEcho ==
    ReportedOpenedSize => ScaledLogicalSize(slint_state) = host.opened

\* C33: in every state of an open window the blit loop of on_frame stays
\* inside the host-mapped buffer: the surface holds at least as many
\* elements as the pixel buffer, and the pixel buffer holds physical_width
\* times physical_height pixels, physical_width being the renderer's stride;
\* also after an open or a resize with a zero dimension and after a failed
\* resize of the surface.
C33_BlitInsideBuffer ==
    handler.alive =>
        /\ handler.pixel_buffer <= SurfaceLen(handler.sb_surface)
        /\ handler.physical_width * handler.physical_height = handler.pixel_buffer

\* C34: every window opens with state of its own: an empty mailbox,
\* unbounded_active false, the button flag false and the cached pointer
\* position at the origin, whatever the sessions before left; and a store
\* to the mailbox of a closed session changes neither the mailbox nor the
\* cursor mode of a window open later.
C34_FreshSession ==
    [][/\ (~handler.alive /\ handler'.alive) =>
             /\ request' = NoRequest
             /\ ~handler'.unbounded_active
             /\ ~handler'.mouse_button_pressed
             /\ handler'.last_mouse_position = Origin
             /\ ~host'.unbounded
       /\ (handler.alive /\ previous' # previous) =>
             /\ handler'.alive => UNCHANGED <<request, handler, host>>
             /\ ~handler'.alive => previous'.request = request]_vars

\* A later window has polled its mailbox, found it empty, and its cursor is
\* bounded, while the mailbox of the session before holds a request to
\* enable unbounded movement.
C34_Witness ==
    /\ handler.alive
    /\ call.entry = "on_frame" /\ ~call.panicked
    /\ call.taken = NoRequest
    /\ ~handler.unbounded_active /\ ~host.unbounded
    /\ previous.closed
    /\ previous.request = EnableRequest(TRUE, 0)

\* C35: the size spawn opens the host window with and the size the handler
\* computes its physical dimensions and pixel buffer from are the same,
\* whatever another thread writes to SlintState during the open.
C35_OneSizePerOpen ==
    (call.entry = "spawn" /\ ~call.before.alive /\ handler.alive) =>
        /\ handler.physical_width = ScaleRound(host.opened[1], handler.scale_factor)
        /\ handler.physical_height = ScaleRound(host.opened[2], handler.scale_factor)
        /\ handler.pixel_buffer =
              WrappingMul(handler.physical_width, handler.physical_height)

====
